---- MODULE Spec2Model ----
(***************************************************************************)
(* Survival-analysis prediction service (src/backend/main.py).             *)
(*                                                                         *)
(* Numbers.  A JSON number x is held as the integer 2*x ("halves"), so     *)
(* that an index age such as 55.5 can be written.  Hazard ratios and       *)
(* survival probabilities are held in hundredths (0.5 is 50, 1.5 is 150).  *)
(* Ages on the survival curve's time axis and the sampled horizons are     *)
(* whole years.  The response timestamp is left out.                       *)
(***************************************************************************)
EXTENDS Integers, Sequences, FiniteSets, TLC

VARIABLES
    pc,             \* "load_model", "load_artifacts" or "serving"
    cox_model,      \* module global cox_model: a fitted model or None
    preprocessing,  \* module global preprocessing: the artifacts or None
    load_error,     \* which load raised into the except clause ("none" if neither)
    request,        \* the request served last
    response,       \* the response to it
    calls           \* the collaborator calls made while serving it, in order

vars == <<pc, cox_model, preprocessing, load_error, request, response, calls>>

\* Longest batch sent to /predict_batch.
MaxBatch == 2

NoneModel == [loaded |-> FALSE]
NoneArtifacts == [loaded |-> FALSE]

----------------------------------------------------------------------------
(* Sequences helpers *)

Range(s) == {s[i] : i \in DOMAIN s}

RECURSIVE SeqSum(_)
SeqSum(s) == IF s = <<>> THEN 0 ELSE Head(s) + SeqSum(Tail(s))

Abs(x) == IF x < 0 THEN -x ELSE x

\* The position of name c in the sequence of names cols (c is in cols).
IndexOf(cols, c) == CHOOSE i \in DOMAIN cols : cols[i] = c

----------------------------------------------------------------------------
(* PatientInput and the feature schema *)

\* The fields of PatientInput, in declaration order; none has a default.
PatientInputFields ==
    << "time", "sex", "chest_pain_type", "resting_bp", "cholesterol",
       "fasting_bs", "resting_ecg", "max_hr", "exercise_angina", "oldpeak",
       "st_slope" >>

\* feature_names with the index age kept among the features: the columns
\* without 'event' only.
FeatureNamesWithTime ==
    << "time", "sex", "chest_pain_type", "resting_bp", "cholesterol",
       "fasting_bs", "resting_ecg", "max_hr", "exercise_angina", "oldpeak",
       "st_slope" >>

\* feature_names as training exports it: the renamed columns of the data set
\* without 'time' and 'event', in column order.
FeatureNames ==
    << "sex", "chest_pain_type", "resting_bp", "cholesterol", "fasting_bs",
       "resting_ecg", "max_hr", "exercise_angina", "oldpeak", "st_slope" >>

\* preprocessing_artifacts as exported (the encoders and scaler are never read
\* by the service).
Artifacts == [loaded |-> TRUE, feature_names |-> FeatureNames]

----------------------------------------------------------------------------
(* The fitted model: the collaborator loaded from cox_model.pkl.  It is a    *)
(* pure function of the frame it is given: a coefficient per fitted column  *)
(* gives the linear predictor; the partial hazard and the survival curve    *)
(* are tabulated per linear predictor, and a linear predictor outside a     *)
(* table makes the collaborator raise.  The curve's time axis (index) is    *)
(* the model's own: sorted, without duplicates.                             *)

Coefficients(bsex, bcp) ==
    [c \in Range(FeatureNames) |->
        IF c = "sex" THEN bsex ELSE IF c = "chest_pain_type" THEN bcp ELSE 0]

CoxModelA ==
    [ loaded |-> TRUE,
      params |-> Coefficients(1, 2),
      partial_hazard |-> (0 :> 49 @@ 2 :> 50 @@ 4 :> 149 @@ 6 :> 150),
      index |-> << 57, 60, 62, 65, 70 >>,
      survival |-> (0 :> << 98, 95, 90, 80, 70 >> @@
                    2 :> << 90, 70, 50, 49, 30 >> @@
                    4 :> << 80, 40, 60, 45, 20 >>),
      concordance_index_ |-> 85 ]

CoxModelB ==
    [ loaded |-> TRUE,
      params |-> Coefficients(2, 1),
      partial_hazard |-> (0 :> 100 @@ 4 :> 20 @@ 6 :> 300),
      index |-> << 58, 61, 75 >>,
      survival |-> (0 :> << 40, 30, 10 >> @@
                    2 :> << 90, 60, 50 >> @@
                    4 :> << 100, 50, 50 >> @@
                    6 :> << 70, 60, 20 >>),
      concordance_index_ |-> 71 ]

\* What joblib.load(MODEL_PATH) can return.
CoxModels == {CoxModelA, CoxModelB}

\* A frame of one row: the column names and the row's values, in column order.
DataFrame(cols, row) == [columns |-> cols, row |-> row]

\* The value of column c in the one-row frame df.
At(df, c) == df.row[IndexOf(df.columns, c)]

\* The collaborator reads its fitted columns from the frame by name.
LinearPredictor(m, df) ==
    SeqSum([i \in DOMAIN FeatureNames |->
                m.params[FeatureNames[i]] * At(df, FeatureNames[i])])

HasFittedColumns(m, df) == DOMAIN m.params \subseteq Range(df.columns)

\* The log partial hazard taken for the partial hazard: zero at the baseline.
predict_log_partial_hazard(m, df) ==
    IF HasFittedColumns(m, df) /\ LinearPredictor(m, df) \in DOMAIN m.partial_hazard
    THEN [raised |-> FALSE, value |-> m.partial_hazard[LinearPredictor(m, df)] - 100]
    ELSE [raised |-> TRUE, value |-> 0]

\* cox_model.predict_partial_hazard(patient_df).values[0]
predict_partial_hazard(m, df) ==
    IF HasFittedColumns(m, df) /\ LinearPredictor(m, df) \in DOMAIN m.partial_hazard
    THEN [raised |-> FALSE, value |-> m.partial_hazard[LinearPredictor(m, df)]]
    ELSE [raised |-> TRUE, value |-> 0]

\* cox_model.predict_survival_function(patient_df): the curve as the pair of
\* its time axis (index) and the probabilities at those times (values).
predict_survival_function(m, df) ==
    IF HasFittedColumns(m, df) /\ LinearPredictor(m, df) \in DOMAIN m.survival
    THEN [raised |-> FALSE, index |-> m.index,
          values |-> m.survival[LinearPredictor(m, df)]]
    ELSE [raised |-> TRUE, index |-> <<>>, values |-> <<>>]

----------------------------------------------------------------------------
(* Request bodies and their validation against PatientInput *)

JNumber(h) == [type |-> "number", halves |-> h]
JString == [type |-> "string", halves |-> 0]

\* The errors the framework reports for a body that is no PatientInput: a
\* declared field that is absent, or one whose value is not a number.  A
\* key that PatientInput does not declare is no error.
ValidationErrors(raw) ==
    {[loc |-> f, type |-> "value_error.missing"] :
        f \in Range(PatientInputFields) \ DOMAIN raw}
    \cup
    {[loc |-> f, type |-> "type_error"] :
        f \in {g \in Range(PatientInputFields) \cap DOMAIN raw :
                  raw[g].type # "number"}}

\* The PatientInput built from a valid body: the declared fields only.
PatientInput(raw) == [f \in Range(PatientInputFields) |-> raw[f].halves]

\* int() read as rounding down.
IntOfFloatFloor(h) == h \div 2

\* int(patient.time): truncation toward zero.
IntOfFloat(h) == IF h >= 0 THEN h \div 2 ELSE -((-h) \div 2)

----------------------------------------------------------------------------
(* Frames *)

\* pd.DataFrame([patient.dict()]): the fields in declaration order.
PatientFrame(patient) ==
    DataFrame(PatientInputFields,
              [i \in DOMAIN PatientInputFields |-> patient[PatientInputFields[i]]])

\* The selection left out: the frame stays as built from the record.
SelectColumnsSkipped(df, names) == [raised |-> FALSE, df |-> df]

\* patient_df[feature_names]: the named columns in the order named; KeyError
\* when a name is no column of the frame.
SelectColumns(df, names) ==
    IF Range(names) \subseteq Range(df.columns)
    THEN [raised |-> FALSE,
          df |-> DataFrame(names, [i \in DOMAIN names |-> At(df, names[i])])]
    ELSE [raised |-> TRUE, df |-> DataFrame(<<>>, <<>>)]

----------------------------------------------------------------------------
(* Derivations of predict *)

\* The three-way policy as written in predict.
risk_score_predict(partial_hazard) ==
    IF partial_hazard < 50 THEN "Low Risk"
    ELSE IF partial_hazard < 150 THEN "Medium Risk"
    ELSE "High Risk"

\* risk_score_batch with the lower threshold made inclusive.
risk_score_batch_inclusive(partial_hazard) ==
    IF partial_hazard <= 50 THEN "Low Risk"
    ELSE IF partial_hazard < 150 THEN "Medium Risk"
    ELSE "High Risk"

\* The same policy as written again in predict_batch.
risk_score_batch(partial_hazard) ==
    IF partial_hazard < 50 THEN "Low Risk"
    ELSE IF partial_hazard < 150 THEN "Medium Risk"
    ELSE "High Risk"

\* FutureAges listed from the farthest horizon to the nearest.
FutureAgesDescending(current_age) ==
    << current_age + 20, current_age + 15, current_age + 10, current_age + 5 >>

\* [current_age + 5, current_age + 10, current_age + 15, current_age + 20]
FutureAges(current_age) ==
    << current_age + 5, current_age + 10, current_age + 15, current_age + 20 >>

SetMax(S) == CHOOSE x \in S : \A y \in S : y <= x
SetMin(S) == CHOOSE x \in S : \A y \in S : x <= y

\* survival_func.index.max()
IndexMax(index) == SetMax(Range(index))

\* WithinCurve with the maximum itself excluded.
WithinCurveStrict(future_age, index) == future_age < IndexMax(index)

\* if future_age <= survival_func.index.max()
WithinCurve(future_age, index) == future_age <= IndexMax(index)

\* Positions are 1-based; 0 stands for the library's -1 ("no such position"),
\* which as a position reads the last element.
Wrap(s, i) == IF i = 0 THEN s[Len(s)] ELSE s[i]

\* get_indexer(method='pad'): the last position whose time is <= t.
PadIndexer(index, t) ==
    LET below == {i \in DOMAIN index : index[i] <= t}
    IN IF below = {} THEN 0 ELSE SetMax(below)

\* get_indexer(method='backfill'): the first position whose time is >= t.
BackfillIndexer(index, t) ==
    LET above == {i \in DOMAIN index : index[i] >= t}
    IN IF above = {} THEN 0 ELSE SetMin(above)

\* get_indexer with method='backfill' in place of 'nearest'.
get_indexer_backfill(index, t) == BackfillIndexer(index, t)

\* get_indexer_nearest with a tie given to the pad neighbour.
get_indexer_nearest_tie_left(index, t) ==
    LET left == PadIndexer(index, t)
        right == BackfillIndexer(index, t)
    IN IF (left # 0 /\ Abs(Wrap(index, left) - t) <= Abs(Wrap(index, right) - t))
          \/ right = 0
       THEN left ELSE right

\* survival_func.index.get_indexer([t], method='nearest')[0] on an increasing
\* index: the pad neighbour when it is strictly closer than the backfill
\* neighbour or there is no backfill neighbour, else the backfill neighbour.
get_indexer_nearest(index, t) ==
    LET left == PadIndexer(index, t)
        right == BackfillIndexer(index, t)
        left_distance == Abs(Wrap(index, left) - t)
        right_distance == Abs(Wrap(index, right) - t)
    IN IF left_distance < right_distance \/ right = 0 THEN left ELSE right

\* The loop that fills survival_probs: one entry per future age within the
\* curve, in the order of the list.
SurvivalProbs(sf, future_ages) ==
    LET kept == SelectSeq(future_ages, LAMBDA h : WithinCurve(h, sf.index))
    IN [i \in DOMAIN kept |->
          [age |-> kept[i],
           prob |-> Wrap(sf.values, get_indexer_nearest(sf.index, kept[i]))]]

\* IsBelow50 with one half itself counted as below.
IsBelow50Inclusive(p) == p <= 50

\* The row filter of below_50: is this probability below one half.
IsBelow50(p) == p < 50

\* below_50.index: the times of the rows whose probability is below one half,
\* in index order.
Below50Index(sf) ==
    LET positions == [i \in DOMAIN sf.index |-> i]
        rows == SelectSeq(positions, LAMBDA i : IsBelow50(sf.values[i]))
    IN [k \in DOMAIN rows |-> sf.index[rows[k]]]

\* MedianSurvival falling back to the curve's first time point.
MedianSurvivalFirst(sf) ==
    IF Len(Below50Index(sf)) > 0
    THEN Below50Index(sf)[1]
    ELSE sf.index[1]

\* float(below_50.index[0]) if len(below_50) > 0 else float(survival_func.index[-1])
MedianSurvival(sf) ==
    IF Len(Below50Index(sf)) > 0
    THEN Below50Index(sf)[1]
    ELSE sf.index[Len(sf.index)]

----------------------------------------------------------------------------
(* Responses *)

\* HTTPException(status_code=500, detail="Model not loaded")
ModelNotLoaded == [status_code |-> 500, detail |-> "Model not loaded"]

\* HTTPException(status_code=400, detail=f"<prefix>: {str(e)}"), e of kind exc
ClientError(prefix, exc) == [status_code |-> 400, detail |-> prefix, exception |-> exc]

\* The framework's answer to a body that fails validation.
Unprocessable(errors) == [status_code |-> 422, errors |-> errors]

\* The framework's answer to an exception no handler catches.
InternalServerError == [status_code |-> 500, detail |-> "Internal Server Error"]

Call(fn, df) == [fn |-> fn, df |-> df]

----------------------------------------------------------------------------
(* The handlers.  Each yields the response and the collaborator calls made. *)

\* health_check with the status fixed.
health_check_always_healthy(cm) ==
    [status_code |-> 200, status |-> "healthy", model_loaded |-> cm.loaded]

\* health_check()
health_check(cm) ==
    [status_code |-> 200,
     status |-> IF cm.loaded THEN "healthy" ELSE "model not loaded",
     model_loaded |-> cm.loaded]

\* The try block of predict, from the survival function on.
PredictCurve(cm, patient, df, partial_hazard, made) ==
    LET sf == predict_survival_function(cm, df)
        made2 == Append(made, Call("predict_survival_function", df))
    IN IF sf.raised
       THEN [response |-> ClientError("Prediction error", "CollaboratorError"),
             calls |-> made2]
       ELSE [response |->
                [status_code |-> 200,
                 hazard_ratio |-> partial_hazard,
                 risk_score |-> risk_score_predict(partial_hazard),
                 median_survival_age |-> MedianSurvival(sf),
                 survival_probabilities |->
                     SurvivalProbs(sf, FutureAges(IntOfFloat(patient["time"])))],
             calls |-> made2]

\* predict(patient)
predict(cm, pp, patient) ==
    IF ~cm.loaded
    THEN [response |-> ModelNotLoaded, calls |-> <<>>]
    ELSE IF ~pp.loaded
    THEN [response |-> ClientError("Prediction error", "AttributeError"),
          calls |-> <<>>]
    ELSE LET sel == SelectColumns(PatientFrame(patient), pp.feature_names)
             ph == predict_partial_hazard(cm, sel.df)
             made == << Call("predict_partial_hazard", sel.df) >>
         IN IF sel.raised
            THEN [response |-> ClientError("Prediction error", "KeyError"),
                  calls |-> <<>>]
            ELSE IF ph.raised
            THEN [response |-> ClientError("Prediction error", "CollaboratorError"),
                  calls |-> made]
            ELSE PredictCurve(cm, patient, sel.df, ph.value, made)

\* The for loop of predict_batch over the patients left, with the predictions
\* appended and the collaborator calls made so far.
RECURSIVE BatchLoop(_, _, _, _, _)
BatchLoop(cm, pp, patients, predictions, made) ==
    IF patients = <<>>
    THEN [raised |-> FALSE, exception |-> "", predictions |-> predictions,
          calls |-> made]
    ELSE IF ~pp.loaded
    THEN [raised |-> TRUE, exception |-> "AttributeError",
          predictions |-> predictions, calls |-> made]
    ELSE LET patient == Head(patients)
             sel == SelectColumns(PatientFrame(patient), pp.feature_names)
             ph == predict_partial_hazard(cm, sel.df)
             made1 == Append(made, Call("predict_partial_hazard", sel.df))
         IN IF sel.raised
            THEN [raised |-> TRUE, exception |-> "KeyError",
                  predictions |-> predictions, calls |-> made]
            ELSE IF ph.raised
            THEN [raised |-> TRUE, exception |-> "CollaboratorError",
                  predictions |-> predictions, calls |-> made1]
            ELSE BatchLoop(cm, pp, Tail(patients),
                           Append(predictions,
                                  [patient_age |-> patient["time"],
                                   hazard_ratio |-> ph.value,
                                   risk_score |-> risk_score_batch(ph.value)]),
                           made1)

\* The sequence s back to front.
Reverse(s) == [i \in DOMAIN s |-> s[Len(s) + 1 - i]]

\* predict_batch with the results built back to front.
predict_batch_reversed(cm, pp, patients) ==
    IF ~cm.loaded
    THEN [response |-> ModelNotLoaded, calls |-> <<>>]
    ELSE LET loop == BatchLoop(cm, pp, Reverse(patients), <<>>, <<>>)
         IN IF loop.raised
            THEN [response |-> ClientError("Batch prediction error", loop.exception),
                  calls |-> loop.calls]
            ELSE [response |-> [status_code |-> 200, predictions |-> loop.predictions],
                  calls |-> loop.calls]

\* predict_batch without the check that a model is loaded.
predict_batch_unguarded(cm, pp, patients) ==
    LET loop == BatchLoop(cm, pp, patients, <<>>, <<>>)
    IN IF loop.raised
       THEN [response |-> ClientError("Batch prediction error", loop.exception),
             calls |-> loop.calls]
       ELSE [response |-> [status_code |-> 200, predictions |-> loop.predictions],
             calls |-> loop.calls]

\* predict_batch built on the predict handler itself: each record is scored by
\* predict and the first one it fails on fails the batch.
predict_batch_via_predict(cm, pp, patients) ==
    LET each == [i \in DOMAIN patients |-> predict(cm, pp, patients[i])]
    IN IF ~cm.loaded
       THEN [response |-> ModelNotLoaded, calls |-> <<>>]
       ELSE IF \E i \in DOMAIN each : each[i].response.status_code # 200
       THEN [response |-> ClientError("Batch prediction error", "CollaboratorError"),
             calls |-> IF patients = <<>> THEN <<>> ELSE each[1].calls]
       ELSE [response |->
                [status_code |-> 200,
                 predictions |->
                     [i \in DOMAIN patients |->
                         [patient_age |-> patients[i]["time"],
                          hazard_ratio |-> each[i].response.hazard_ratio,
                          risk_score |-> each[i].response.risk_score]]],
             calls |-> IF patients = <<>> THEN <<>> ELSE each[1].calls]

\* predict_batch(patients)
predict_batch(cm, pp, patients) ==
    IF ~cm.loaded
    THEN [response |-> ModelNotLoaded, calls |-> <<>>]
    ELSE LET loop == BatchLoop(cm, pp, patients, <<>>, <<>>)
         IN IF loop.raised
            THEN [response |-> ClientError("Batch prediction error", loop.exception),
                  calls |-> loop.calls]
            ELSE [response |-> [status_code |-> 200, predictions |-> loop.predictions],
                  calls |-> loop.calls]

\* model_info()
model_info(cm, pp) ==
    IF ~cm.loaded THEN ModelNotLoaded
    ELSE IF ~pp.loaded THEN InternalServerError
    ELSE [status_code |-> 200,
          model_type |-> "Cox Proportional Hazards",
          concordance_index |-> cm.concordance_index_,
          number_of_features |-> Len(pp.feature_names),
          features |-> pp.feature_names]

----------------------------------------------------------------------------
(* The endpoints: the framework validates the body against the handler's   *)
(* parameter type and calls the handler only with a valid one.             *)

\* POST /predict with body raw
PredictEndpoint(cm, pp, raw) ==
    IF ValidationErrors(raw) # {}
    THEN [response |-> Unprocessable(ValidationErrors(raw)), calls |-> <<>>]
    ELSE predict(cm, pp, PatientInput(raw))

\* The validation errors of a list body, each with the element it is in.
BatchValidationErrors(raws) ==
    UNION {{[item |-> i, loc |-> e.loc, type |-> e.type] :
                e \in ValidationErrors(raws[i])} : i \in DOMAIN raws}

\* POST /predict_batch with body raws
PredictBatchEndpoint(cm, pp, raws) ==
    IF BatchValidationErrors(raws) # {}
    THEN [response |-> Unprocessable(BatchValidationErrors(raws)), calls |-> <<>>]
    ELSE predict_batch(cm, pp, [i \in DOMAIN raws |-> PatientInput(raws[i])])

----------------------------------------------------------------------------
(* The request bodies sent *)

\* The example body of PatientInput's Config (time 55, resting_bp 140, ...).
ExampleValues ==
    [f \in Range(PatientInputFields) |->
        CASE f = "time" -> 110
          [] f = "resting_bp" -> 280
          [] f = "cholesterol" -> 400
          [] f = "max_hr" -> 280
          [] f = "oldpeak" -> 2
          [] f = "st_slope" -> 2
          [] OTHER -> 0]

\* Index ages 50, 54, 55, 55.5, 56 and -10.5.
TimeValues == {100, 108, 110, 111, 112, -21}
SexValues == {0, 2}
ChestPainValues == {JNumber(0), JNumber(2), JString}

\* The example body with the given time, sex and chest_pain_type, without the
\* fields in missing and with the undeclared keys in extra.
RawRecord(time, sex, cp, missing, extra) ==
    [f \in (Range(PatientInputFields) \ missing) \cup extra |->
        CASE f = "time" -> JNumber(time)
          [] f = "sex" -> JNumber(sex)
          [] f = "chest_pain_type" -> cp
          [] f \in Range(PatientInputFields) -> JNumber(ExampleValues[f])
          [] OTHER -> JNumber(14)]

MissingSets == {{}, {"time"}, {"sex"}, {"st_slope"}}
ExtraSets == {{}, {"patient_id"}}

RawRecords ==
    {RawRecord(t, s, c, m, x) :
        t \in TimeValues, s \in SexValues, c \in ChestPainValues,
        m \in MissingSets, x \in ExtraSets}

BatchRecords ==
    {RawRecord(110, s, c, {}, {}) : s \in SexValues, c \in {JNumber(0), JNumber(2)}}
    \cup {RawRecord(112, 2, JNumber(0), {}, {"patient_id"}),
          RawRecord(110, 0, JNumber(0), {"sex"}, {})}

Batches == UNION {[1..n -> BatchRecords] : n \in 0..MaxBatch}

----------------------------------------------------------------------------
(* The state machine *)

Init ==
    /\ pc = "load_model"
    /\ cox_model = NoneModel
    /\ preprocessing = NoneArtifacts
    /\ load_error = "none"
    /\ request = [op |-> "none"]
    /\ response = [status_code |-> 0]
    /\ calls = <<>>

\* cox_model = joblib.load(MODEL_PATH), or the except clause when it raises.
LoadModel ==
    /\ pc = "load_model"
    /\ \/ /\ \E m \in CoxModels : cox_model' = m
          /\ pc' = "load_artifacts"
          /\ UNCHANGED <<preprocessing, load_error>>
       \/ /\ cox_model' = NoneModel
          /\ preprocessing' = NoneArtifacts
          /\ load_error' = "model"
          /\ pc' = "serving"
    /\ UNCHANGED <<request, response, calls>>

\* LoadArtifacts with an except clause that resets preprocessing only.
LoadArtifactsKeepingModel ==
    /\ pc = "load_artifacts"
    /\ \/ /\ preprocessing' = Artifacts
          /\ UNCHANGED <<cox_model, load_error>>
       \/ /\ preprocessing' = NoneArtifacts
          /\ load_error' = "artifacts"
          /\ UNCHANGED cox_model
    /\ pc' = "serving"
    /\ UNCHANGED <<request, response, calls>>

\* preprocessing = joblib.load(ARTIFACTS_PATH), or the except clause when it
\* raises.
LoadArtifacts ==
    /\ pc = "load_artifacts"
    /\ \/ /\ preprocessing' = Artifacts
          /\ UNCHANGED <<cox_model, load_error>>
       \/ /\ cox_model' = NoneModel
          /\ preprocessing' = NoneArtifacts
          /\ load_error' = "artifacts"
    /\ pc' = "serving"
    /\ UNCHANGED <<request, response, calls>>

\* GET /health
HealthCheck ==
    /\ pc = "serving"
    /\ request' = [op |-> "health"]
    /\ response' = health_check(cox_model)
    /\ calls' = <<>>
    /\ UNCHANGED <<pc, cox_model, preprocessing, load_error>>

\* Predict taking the first name off the shared feature list as it goes.
PredictConsumingSchema ==
    /\ pc = "serving"
    /\ \E raw \in RawRecords :
          LET out == PredictEndpoint(cox_model, preprocessing, raw)
          IN /\ request' = [op |-> "predict", body |-> raw]
             /\ response' = out.response
             /\ calls' = out.calls
    /\ preprocessing' =
          IF preprocessing.loaded /\ preprocessing.feature_names # <<>>
          THEN [preprocessing EXCEPT !.feature_names = Tail(@)]
          ELSE preprocessing
    /\ UNCHANGED <<pc, cox_model, load_error>>

\* POST /predict
Predict ==
    /\ pc = "serving"
    /\ \E raw \in RawRecords :
          LET out == PredictEndpoint(cox_model, preprocessing, raw)
          IN /\ request' = [op |-> "predict", body |-> raw]
             /\ response' = out.response
             /\ calls' = out.calls
    /\ UNCHANGED <<pc, cox_model, preprocessing, load_error>>

\* PredictBatch dropping the globals, as the startup's except clause does,
\* when the batch fails.
PredictBatchDroppingModel ==
    /\ pc = "serving"
    /\ \E raws \in Batches :
          LET out == PredictBatchEndpoint(cox_model, preprocessing, raws)
          IN /\ request' = [op |-> "predict_batch", body |-> raws]
             /\ response' = out.response
             /\ calls' = out.calls
             /\ IF out.response.status_code = 400
                THEN cox_model' = NoneModel /\ preprocessing' = NoneArtifacts
                ELSE UNCHANGED <<cox_model, preprocessing>>
    /\ UNCHANGED <<pc, load_error>>

\* POST /predict_batch
PredictBatch ==
    /\ pc = "serving"
    /\ \E raws \in Batches :
          LET out == PredictBatchEndpoint(cox_model, preprocessing, raws)
          IN /\ request' = [op |-> "predict_batch", body |-> raws]
             /\ response' = out.response
             /\ calls' = out.calls
    /\ UNCHANGED <<pc, cox_model, preprocessing, load_error>>

\* GET /model-info
ModelInfo ==
    /\ pc = "serving"
    /\ request' = [op |-> "model_info"]
    /\ response' = model_info(cox_model, preprocessing)
    /\ calls' = <<>>
    /\ UNCHANGED <<pc, cox_model, preprocessing, load_error>>

Next ==
    \/ LoadModel
    \/ LoadArtifacts
    \/ HealthCheck
    \/ Predict
    \/ PredictBatch
    \/ ModelInfo

Spec == Init /\ [][Next]_vars

----------------------------------------------------------------------------
(* What the claims speak of *)

Served(op) == pc = "serving" /\ request.op = op

\* The last request was a /predict that got a prediction.
PredictSucceeded == Served("predict") /\ response.status_code = 200

\* The last request was a /predict_batch that got its list of results.
BatchSucceeded == Served("predict_batch") /\ response.status_code = 200

RequiredFields ==
    { "time", "sex", "chest_pain_type", "resting_bp", "cholesterol",
      "fasting_bs", "resting_ecg", "max_hr", "exercise_angina", "oldpeak",
      "st_slope" }

\* Every required field is there and is a number.
WellFormed(raw) ==
    \A f \in RequiredFields : f \in DOMAIN raw /\ raw[f].type = "number"

\* The record's values laid out in the schema's order.
SchemaFrame(raw) ==
    [columns |-> preprocessing.feature_names,
     row |-> [i \in DOMAIN preprocessing.feature_names |->
                 raw[preprocessing.feature_names[i]].halves]]

\* The collaborator's answers for a record.
HazardOf(raw) == predict_partial_hazard(cox_model, SchemaFrame(raw))
CurveOf(raw) == predict_survival_function(cox_model, SchemaFrame(raw))

\* The category the fixed policy gives hazard ratio hr is cat.
PolicyGives(hr, cat) ==
    /\ hr < 50 => cat = "Low Risk"
    /\ (hr >= 50 /\ hr < 150) => cat = "Medium Risk"
    /\ hr >= 150 => cat = "High Risk"

\* C1: in every prediction of predict and in every result of predict_batch
\* the risk category is the one the three-way policy gives the hazard ratio:
\* below 0.5 Low, from 0.5 to below 1.5 Medium, from 1.5 on High.
C1_RiskCategory ==
    /\ PredictSucceeded => PolicyGives(response.hazard_ratio, response.risk_score)
    /\ BatchSucceeded =>
          \A i \in DOMAIN response.predictions :
              PolicyGives(response.predictions[i].hazard_ratio,
                          response.predictions[i].risk_score)

\* C1 witness: a batch whose results hold both hr = 0.5 (Medium) and hr = 0.49
\* (Low).
C1_Witness ==
    /\ BatchSucceeded
    /\ \E i, j \in DOMAIN response.predictions :
          /\ response.predictions[i].hazard_ratio = 50
          /\ response.predictions[i].risk_score = "Medium Risk"
          /\ response.predictions[j].hazard_ratio = 49
          /\ response.predictions[j].risk_score = "Low Risk"

\* C1 witness of the upper boundary, in predict: hr = 1.49 is Medium.
C1_WitnessPredict ==
    /\ PredictSucceeded
    /\ response.hazard_ratio = 149
    /\ response.risk_score = "Medium Risk"

\* C2: a /predict_batch that succeeds on N records returns N results, the i-th
\* for the i-th record (it carries that record's index age), and the i-th
\* hazard_ratio is the one /predict returns for the i-th record alone
\* whenever /predict returns a prediction for it.
C2_BatchPointwise ==
    BatchSucceeded =>
        /\ Len(response.predictions) = Len(request.body)
        /\ \A i \in DOMAIN request.body :
              LET alone == PredictEndpoint(cox_model, preprocessing,
                                           request.body[i]).response
              IN /\ response.predictions[i].patient_age
                        = request.body[i]["time"].halves
                 /\ alone.status_code = 200 =>
                        response.predictions[i].hazard_ratio = alone.hazard_ratio

\* C2 witness: a batch of two records of different index age and different
\* hazard, each of which /predict alone also scores.
C2_Witness ==
    /\ BatchSucceeded
    /\ Len(request.body) = 2
    /\ response.predictions[1].hazard_ratio # response.predictions[2].hazard_ratio
    /\ response.predictions[1].patient_age # response.predictions[2].patient_age
    /\ \A i \in DOMAIN request.body :
          PredictEndpoint(cox_model, preprocessing,
                          request.body[i]).response.status_code = 200

\* C3 (as claimed): when the collaborator raises for one record of a batch,
\* every record it does score still has its result in what the caller gets.
C3_FailureDoesNotAbort ==
    (/\ Served("predict_batch")
     /\ cox_model.loaded
     /\ \A i \in DOMAIN request.body : WellFormed(request.body[i])
     /\ \E j \in DOMAIN request.body : HazardOf(request.body[j]).raised)
    => \A i \in DOMAIN request.body :
          ~HazardOf(request.body[i]).raised =>
              /\ "predictions" \in DOMAIN response
              /\ \E k \in DOMAIN response.predictions :
                    /\ response.predictions[k].patient_age
                          = request.body[i]["time"].halves
                    /\ response.predictions[k].hazard_ratio
                          = HazardOf(request.body[i]).value

\* The curve the collaborator gave for the record of the last /predict.
Curve == CurveOf(request.body)

\* The candidate horizons of the last /predict: index age plus 5, 10, 15, 20.
Candidates ==
    {IntOfFloat(request.body["time"].halves) + k : k \in {5, 10, 15, 20}}

\* The ages reported in survival_probabilities.
ReportedAges ==
    {response.survival_probabilities[i].age :
        i \in DOMAIN response.survival_probabilities}

\* C4: in every prediction of /predict the reported ages are candidate
\* horizons, and a candidate horizon is reported exactly when it does not
\* exceed the curve's largest time point.
C4_HorizonWithinMax ==
    PredictSucceeded =>
        /\ ReportedAges \subseteq Candidates
        /\ \A h \in Candidates :
              h \in ReportedAges <=> (\E t \in Range(Curve.index) : h <= t)

\* C4 witness: a prediction that reports the horizon equal to the curve's
\* largest time point and leaves out a later one.
C4_Witness ==
    /\ PredictSucceeded
    /\ \E h \in ReportedAges :
          h \in Range(Curve.index) /\ \A t \in Range(Curve.index) : t <= h
    /\ \E h \in Candidates : h \notin ReportedAges

\* C5: every reported probability is the curve's value at a time point whose
\* distance to the reported age no other time point undercuts.
C5_NearestTimePoint ==
    PredictSucceeded =>
        \A k \in DOMAIN response.survival_probabilities :
            LET e == response.survival_probabilities[k]
            IN \E i \in DOMAIN Curve.index :
                  /\ e.prob = Curve.values[i]
                  /\ \A j \in DOMAIN Curve.index :
                        Abs(Curve.index[i] - e.age) <= Abs(Curve.index[j] - e.age)

\* C5 witness: a prediction with one age resolved to the time point below it
\* and another resolved to the time point above it, neither being a time point.
C5_Witness ==
    /\ PredictSucceeded
    /\ \E k, l \in DOMAIN response.survival_probabilities :
          LET e == response.survival_probabilities[k]
              g == response.survival_probabilities[l]
          IN /\ e.age \notin Range(Curve.index)
             /\ g.age \notin Range(Curve.index)
             /\ \E i \in DOMAIN Curve.index :
                   /\ Curve.index[i] < e.age
                   /\ e.prob = Curve.values[i]
                   /\ \A j \in DOMAIN Curve.index \ {i} :
                         Abs(Curve.index[i] - e.age) < Abs(Curve.index[j] - e.age)
             /\ \E i \in DOMAIN Curve.index :
                   /\ Curve.index[i] > g.age
                   /\ g.prob = Curve.values[i]
                   /\ \A j \in DOMAIN Curve.index \ {i} :
                         Abs(Curve.index[i] - g.age) < Abs(Curve.index[j] - g.age)

\* The positions of the curve whose probability is strictly below one half.
BelowHalf == {i \in DOMAIN Curve.index : Curve.values[i] < 50}

\* C6: median_survival_age is the smallest time point whose probability is
\* strictly below 0.5, and the curve's largest time point when there is none.
C6_Median ==
    PredictSucceeded =>
        IF BelowHalf # {}
        THEN /\ \E i \in BelowHalf : response.median_survival_age = Curve.index[i]
             /\ \A i \in BelowHalf : response.median_survival_age <= Curve.index[i]
        ELSE /\ response.median_survival_age \in Range(Curve.index)
             /\ \A t \in Range(Curve.index) : t <= response.median_survival_age

\* C6 witness: a curve that is exactly 0.5 at a time point before it first
\* drops below 0.5.
C6_Witness ==
    /\ PredictSucceeded
    /\ BelowHalf # {}
    /\ \E i \in DOMAIN Curve.index :
          /\ Curve.values[i] = 50
          /\ Curve.index[i] < response.median_survival_age

\* C7: every prediction carries a numeric median; a record whose curve never
\* drops below 0.5 gets a prediction whose median is the curve's largest time
\* point; a record for which the collaborator yields no curve gets an error
\* and no prediction.
C7_FallbackVersusNoCurve ==
    /\ PredictSucceeded => response.median_survival_age \in Int
    /\ (PredictSucceeded /\ BelowHalf = {}) =>
          \A t \in Range(Curve.index) : t <= response.median_survival_age
    /\ (/\ Served("predict")
        /\ cox_model.loaded
        /\ WellFormed(request.body)
        /\ Curve.raised)
       => /\ response.status_code = 400
          /\ "median_survival_age" \notin DOMAIN response

\* C7 witness: a prediction made by the fallback.
C7_Witness ==
    /\ PredictSucceeded
    /\ BelowHalf = {}
    /\ response.median_survival_age = Curve.index[Len(Curve.index)]

\* C7 witness of the other case: a hazard was computed but no curve.
C7_WitnessNoCurve ==
    /\ Served("predict")
    /\ cox_model.loaded
    /\ WellFormed(request.body)
    /\ ~HazardOf(request.body).raised
    /\ Curve.raised
    /\ response.status_code = 400

\* C8: for a non-increasing curve the entries of survival_probabilities, in
\* insertion order, have strictly ascending ages and non-increasing
\* probabilities.
C8_Monotone ==
    (/\ PredictSucceeded
     /\ \A i, j \in DOMAIN Curve.values : i < j => Curve.values[i] >= Curve.values[j])
    => \A k, l \in DOMAIN response.survival_probabilities :
          k < l =>
              /\ response.survival_probabilities[k].age
                    < response.survival_probabilities[l].age
              /\ response.survival_probabilities[k].prob
                    >= response.survival_probabilities[l].prob

\* C8 witness: a non-increasing curve sampled at three ages or more with
\* falling probabilities.
C8_Witness ==
    /\ PredictSucceeded
    /\ \A i, j \in DOMAIN Curve.values : i < j => Curve.values[i] >= Curve.values[j]
    /\ Len(response.survival_probabilities) >= 3
    /\ response.survival_probabilities[1].prob > response.survival_probabilities[2].prob
    /\ response.survival_probabilities[2].prob > response.survival_probabilities[3].prob

\* The body without the keys that are no required field.
Restricted(raw) == [f \in DOMAIN raw \cap RequiredFields |-> raw[f]]

\* The response reports a required field as missing.
SchemaMismatch ==
    /\ response.status_code = 422
    /\ \E e \in response.errors : e.type = "value_error.missing"

\* C9: /predict answers with the missing-field error exactly when a required
\* field is absent from the body; keys that are no required field change
\* nothing in the answer; and every frame given to the collaborator holds the
\* record's values under the schema's names in the schema's order.
C9_SchemaProjection ==
    /\ Served("predict") =>
          /\ SchemaMismatch <=> (\E f \in RequiredFields : f \notin DOMAIN request.body)
          /\ response = PredictEndpoint(cox_model, preprocessing,
                                        Restricted(request.body)).response
          /\ \A k \in DOMAIN calls :
                /\ calls[k].df.columns = preprocessing.feature_names
                /\ \A i \in DOMAIN calls[k].df.row :
                      calls[k].df.row[i]
                          = request.body[preprocessing.feature_names[i]].halves
    /\ Served("predict_batch") =>
          \A k \in DOMAIN calls :
              /\ calls[k].df.columns = preprocessing.feature_names
              /\ \A i \in DOMAIN calls[k].df.row :
                    calls[k].df.row[i]
                        = request.body[k][preprocessing.feature_names[i]].halves

\* C9 witness: a body with every required field and an undeclared key that
\* got a prediction from a record whose sex and chest_pain_type differ.
C9_Witness ==
    /\ PredictSucceeded
    /\ DOMAIN request.body \ RequiredFields # {}
    /\ request.body["sex"] # request.body["chest_pain_type"]
    /\ Len(calls) = 2

\* The startup load failed.
LoadFailed == pc = "serving" /\ load_error # "none"

\* The bodies of the last request: one for /predict, the list's for
\* /predict_batch, none for /model-info.
Bodies ==
    IF request.op = "predict" THEN {request.body}
    ELSE IF request.op = "predict_batch" THEN Range(request.body)
    ELSE {}

\* C10 (as claimed): after a failed load every call to /predict,
\* /predict_batch and /model-info gets the model-unavailable error and the
\* collaborator is not queried.
C10_AlwaysModelUnavailable ==
    (LoadFailed /\ request.op \in {"predict", "predict_batch", "model_info"})
    => /\ response = ModelNotLoaded
       /\ calls = <<>>

\* C10 (amended): after a failed load no call queries the collaborator or
\* gets a prediction; a call whose body passes validation gets the
\* model-unavailable error, and a call whose body does not gets the
\* validation error.
C10_ModelUnavailable ==
    (LoadFailed /\ request.op \in {"predict", "predict_batch", "model_info"})
    => /\ calls = <<>>
       /\ ~cox_model.loaded
       /\ IF \A raw \in Bodies : WellFormed(raw)
          THEN response = ModelNotLoaded
          ELSE response.status_code = 422

\* C10 witness: the artifacts failed to load and a valid batch of two got the
\* model-unavailable error.
C10_Witness ==
    /\ LoadFailed
    /\ load_error = "artifacts"
    /\ request.op = "predict_batch"
    /\ Len(request.body) = 2
    /\ \A raw \in Bodies : WellFormed(raw)
    /\ response = ModelNotLoaded

\* The batch is scored (a model is loaded, every body is valid) and the
\* collaborator raises for one of its records.
BatchFails(raws) ==
    /\ cox_model.loaded
    /\ \A i \in DOMAIN raws : WellFormed(raws[i])
    /\ \E j \in DOMAIN raws : HazardOf(raws[j]).raised

\* The first element of the batch for which the collaborator raises.
FirstFailing(raws) ==
    SetMin({j \in DOMAIN raws : HazardOf(raws[j]).raised})

\* C11 (as claimed): when the collaborator raises in predict_batch the
\* exception is caught, and the error handed to the caller tells which
\* element failed: a batch failing at another position, or on another record,
\* gets another error.
C11_ErrorNamesRecord ==
    (Served("predict_batch") /\ BatchFails(request.body)) =>
        /\ response.status_code = 400
        /\ \A other \in Batches :
              (/\ BatchFails(other)
               /\ \/ FirstFailing(other) # FirstFailing(request.body)
                  \/ other[FirstFailing(other)]
                        # request.body[FirstFailing(request.body)])
              => PredictBatchEndpoint(cox_model, preprocessing, other).response
                    # response

\* What a request gets when it is served with the globals cm and pp and
\* nothing else has been served.
ResponseAlone(cm, pp, req) ==
    CASE req.op = "predict" -> PredictEndpoint(cm, pp, req.body).response
      [] req.op = "predict_batch" -> PredictBatchEndpoint(cm, pp, req.body).response
      [] req.op = "health" -> health_check(cm)
      [] req.op = "model_info" -> model_info(cm, pp)

\* C12: once serving, whatever was served before, a call leaves the loaded
\* model and schema as they are and gets the result it gets when served
\* alone with them.
C12_NoSharedWrites ==
    [][pc = "serving" =>
          /\ cox_model' = cox_model
          /\ preprocessing' = preprocessing
          /\ response' = ResponseAlone(cox_model, preprocessing, request')]_vars

\* C12 witness: a prediction was made from two collaborator calls and the
\* globals are still what startup loaded.
C12_Witness ==
    /\ PredictSucceeded
    /\ Len(calls) = 2
    /\ load_error = "none"
    /\ cox_model \in CoxModels
    /\ preprocessing = Artifacts

\* The reported ages in insertion order.
ReportedAgeSeq ==
    [k \in DOMAIN response.survival_probabilities |->
        response.survival_probabilities[k].age]

\* The strictly increasing sequence of the members of the finite set S.
RECURSIVE Ascending(_)
Ascending(S) ==
    IF S = {} THEN <<>> ELSE <<SetMin(S)>> \o Ascending(S \ {SetMin(S)})

\* C13 (as claimed): the sampled horizons are the index age a plus 5, 10, 15
\* and 20, also for an index age that is not a whole number (reported ages
\* doubled are compared with the doubled index age plus 10, 20, 30, 40).
C13_HorizonsFromAge ==
    PredictSucceeded =>
        \A h \in ReportedAges :
            2 * h \in {request.body["time"].halves + 2 * k : k \in {5, 10, 15, 20}}

\* The whole number of years in the index age of the last /predict, fraction
\* dropped: the n with |n| <= |a| < |n| + 1 and the sign of a.
WholeYears ==
    CHOOSE n \in -200..200 :
        LET a2 == request.body["time"].halves
        IN /\ 2 * Abs(n) <= Abs(a2)
           /\ Abs(a2) < 2 * Abs(n) + 2
           /\ (a2 >= 0 => n >= 0)
           /\ (a2 < 0 => n <= 0)

\* C13 (amended): the sampled horizons are n+5, n+10, n+15 and n+20 for n the
\* index age with its fraction dropped; those not beyond the curve's largest
\* time point are reported, in this order.
C13_HorizonsFromWholeAge ==
    PredictSucceeded =>
        ReportedAgeSeq =
            Ascending({h \in {WholeYears + k : k \in {5, 10, 15, 20}} :
                          \E t \in Range(Curve.index) : h <= t})

\* C13 witness: an index age of -10.5 sampled at -5, 0, 5 and 10.
C13_Witness ==
    /\ PredictSucceeded
    /\ request.body["time"].halves = -21
    /\ ReportedAgeSeq = << -5, 0, 5, 10 >>

\* C13 witness for the example record: age 55 and a curve that ends at 70
\* give 60, 65 and 70.
C13_WitnessExample ==
    /\ PredictSucceeded
    /\ request.body["time"].halves = 110
    /\ ReportedAgeSeq = << 60, 65, 70 >>

\* C14: every hazard_ratio that /predict or /predict_batch returns is the
\* partial hazard the collaborator gives for that record's values in schema
\* order, unchanged, and it is strictly positive.
C14_PositiveHazard ==
    /\ PredictSucceeded =>
          /\ response.hazard_ratio > 0
          /\ ~HazardOf(request.body).raised
          /\ response.hazard_ratio = HazardOf(request.body).value
    /\ BatchSucceeded =>
          \A i \in DOMAIN response.predictions :
              /\ response.predictions[i].hazard_ratio > 0
              /\ ~HazardOf(request.body[i]).raised
              /\ response.predictions[i].hazard_ratio
                    = HazardOf(request.body[i]).value

\* C14 witness: a batch of two whose hazards, 0.2 and 3.0, are the
\* collaborator's for the two records.
C14_Witness ==
    /\ BatchSucceeded
    /\ Len(response.predictions) = 2
    /\ response.predictions[1].hazard_ratio = 20
    /\ response.predictions[2].hazard_ratio = 300
    /\ HazardOf(request.body[1]).value = 20
    /\ HazardOf(request.body[2]).value = 300

\* A field of the body holds an invalid value: not a number, a negative index
\* age, or a sex code other than 0 and 1.
HasInvalidValue(raw) ==
    \/ \E f \in DOMAIN raw \cap RequiredFields : raw[f].type # "number"
    \/ /\ "time" \in DOMAIN raw
       /\ raw["time"].type = "number"
       /\ raw["time"].halves < 0
    \/ /\ "sex" \in DOMAIN raw
       /\ raw["sex"].type = "number"
       /\ raw["sex"].halves \notin {0, 2}

\* C15 (as claimed): /predict never returns a prediction for a body with an
\* invalid field value.
C15_InvalidValueRejected ==
    (Served("predict") /\ HasInvalidValue(request.body))
    => response.status_code # 200

\* C16: /predict_batch never asks the collaborator for a survival function;
\* each of its results holds the record's index age, its hazard_ratio and its
\* risk_score and nothing else; and a batch whose every hazard can be computed
\* gets its results whether or not the survival curves can.
C16_BatchReducedOutput ==
    Served("predict_batch") =>
        /\ \A k \in DOMAIN calls : calls[k].fn = "predict_partial_hazard"
        /\ response.status_code = 200 =>
              \A i \in DOMAIN response.predictions :
                  /\ DOMAIN response.predictions[i]
                        = {"patient_age", "hazard_ratio", "risk_score"}
                  /\ response.predictions[i].patient_age
                        = request.body[i]["time"].halves
        /\ (/\ cox_model.loaded
            /\ \A i \in DOMAIN request.body :
                  WellFormed(request.body[i]) /\ ~HazardOf(request.body[i]).raised)
           => response.status_code = 200

\* C16 witness: a batch result for a record whose survival curve the
\* collaborator cannot compute.
C16_Witness ==
    /\ BatchSucceeded
    /\ \E i \in DOMAIN request.body :
          /\ CurveOf(request.body[i]).raised
          /\ response.predictions[i].hazard_ratio = 150
          /\ response.predictions[i].risk_score = "High Risk"

\* C17: while serving, the health query can always be made; it answers 200,
\* model_loaded tells whether startup loaded the model, status is "healthy"
\* exactly when model_loaded is true and "model not loaded" otherwise, and the
\* query changes neither the globals nor the serving state.
C17_Health ==
    [][pc = "serving" =>
          /\ ENABLED HealthCheck
          /\ request'.op = "health" =>
                /\ response'.status_code = 200
                /\ response'.model_loaded = (load_error = "none")
                /\ response'.model_loaded = cox_model.loaded
                /\ (response'.status = "healthy") = response'.model_loaded
                /\ ~response'.model_loaded => response'.status = "model not loaded"
                /\ UNCHANGED <<pc, cox_model, preprocessing, load_error>>]_vars

\* C17 witness: the health query answered with no model loaded.
C17_Witness ==
    /\ Served("health")
    /\ load_error = "artifacts"
    /\ response.status_code = 200
    /\ ~response.model_loaded
    /\ response.status = "model not loaded"

\* The positions i of the curve of the last /predict such that age h lies
\* exactly halfway between time point i and the next one.
HalfwayAfter(h) ==
    {i \in DOMAIN Curve.index :
        /\ i + 1 \in DOMAIN Curve.index
        /\ Curve.index[i] < h
        /\ Curve.index[i] + Curve.index[i + 1] = 2 * h}

\* C18 (as claimed): a reported age exactly halfway between two adjacent time
\* points carries the probability at the earlier of the two.
C18_TieToEarlier ==
    PredictSucceeded =>
        \A k \in DOMAIN response.survival_probabilities :
            \A i \in HalfwayAfter(response.survival_probabilities[k].age) :
                response.survival_probabilities[k].prob = Curve.values[i]

\* C18 (amended): a reported age exactly halfway between two adjacent time
\* points carries the probability at the later of the two.
C18_TieToLater ==
    PredictSucceeded =>
        \A k \in DOMAIN response.survival_probabilities :
            \A i \in HalfwayAfter(response.survival_probabilities[k].age) :
                response.survival_probabilities[k].prob = Curve.values[i + 1]

\* C18 witness: age 61 reported from a curve with time points 60 and 62 that
\* differ in probability.
C18_Witness ==
    /\ PredictSucceeded
    /\ \E k \in DOMAIN response.survival_probabilities :
          \E i \in HalfwayAfter(response.survival_probabilities[k].age) :
              /\ response.survival_probabilities[k].age = 61
              /\ Curve.values[i] # Curve.values[i + 1]

\* C19 (as claimed): every age reported for a record of non-negative index age
\* lies within the curve's domain, from its smallest to its largest time
\* point.
C19_WithinDomain ==
    (PredictSucceeded /\ request.body["time"].halves >= 0) =>
        \A h \in ReportedAges :
            /\ \E t \in Range(Curve.index) : t <= h
            /\ \E t \in Range(Curve.index) : h <= t

\* The request req, a /predict or /predict_batch, got the error resp: a
\* schema mismatch or a failed prediction.
FailedCall(req, resp) ==
    /\ req.op \in {"predict", "predict_batch"}
    /\ resp.status_code \in {400, 422}

\* The globals are what startup left: a fitted model and the exported
\* artifacts, or neither.
GlobalsAsLoaded ==
    IF load_error = "none"
    THEN cox_model \in CoxModels /\ preprocessing = Artifacts
    ELSE cox_model = NoneModel /\ preprocessing = NoneArtifacts

\* C20: a call that fails leaves the loaded model and schema as they were;
\* after a failed call they are still what startup left, and the request
\* served next gets the result it gets when served alone with them.
C20_FailureLeavesNoTrace ==
    [][pc = "serving" =>
          /\ FailedCall(request', response') =>
                cox_model' = cox_model /\ preprocessing' = preprocessing
          /\ FailedCall(request, response) =>
                /\ GlobalsAsLoaded
                /\ response' = ResponseAlone(cox_model, preprocessing, request')
                /\ GlobalsAsLoaded']_vars

\* C20 witness: a batch failed on a collaborator exception and the globals
\* are still the loaded ones.
C20_Witness ==
    /\ Served("predict_batch")
    /\ response.status_code = 400
    /\ response.exception = "CollaboratorError"
    /\ cox_model \in CoxModels
    /\ preprocessing = Artifacts

\* The response resp is one a handler gives when it reads the schema from a
\* preprocessing that is None: the caught AttributeError of predict and
\* predict_batch, the uncaught one of model_info.
ReadAbsentSchema(resp) ==
    \/ resp = InternalServerError
    \/ resp.status_code = 400 /\ resp.exception = "AttributeError"

\* C21: once startup is over the model and the artifacts are both loaded
\* when no load failed and both None when either load failed; so no response
\* is the one of a handler that got past "cox_model is None" and read the
\* schema from a preprocessing that is None.
C21_LoadedTogether ==
    pc = "serving" =>
        /\ cox_model.loaded = preprocessing.loaded
        /\ cox_model.loaded = (load_error = "none")
        /\ load_error = "none" => cox_model \in CoxModels /\ preprocessing = Artifacts
        /\ load_error # "none" => cox_model = NoneModel /\ preprocessing = NoneArtifacts
        /\ request.op # "none" => ~ReadAbsentSchema(response)

\* C21 witness: the model was loaded, the artifacts' load failed, and
\* /model-info was answered "Model not loaded".
C21_Witness ==
    /\ Served("model_info")
    /\ load_error = "artifacts"
    /\ cox_model = NoneModel
    /\ preprocessing = NoneArtifacts
    /\ response = ModelNotLoaded

\* The bodies a and b have the same keys with the same values, but for the
\* value of 'time'.
DifferOnlyInTime(a, b) ==
    /\ DOMAIN a = DOMAIN b
    /\ "time" \in DOMAIN a
    /\ a["time"] # b["time"]
    /\ \A f \in DOMAIN a \ {"time"} : a[f] = b[f]

\* The horizons sampled for index age h (in halves) from the curve sf.
HorizonsSampled(sf, h) == SurvivalProbs(sf, FutureAges(IntOfFloat(h)))

\* C22: when two /predict requests served one after the other differ only in
\* 'time', no frame given to the collaborator has a 'time' column and the
\* second gets the frames the first got; both get the same status and, on
\* an error, the same response; on success both get the same hazard_ratio,
\* risk_score and median_survival_age, and each one's survival_probabilities
\* are the horizons of its own index age sampled from the one curve.
C22_TimeOnlyShiftsHorizons ==
    [][(/\ Served("predict")
        /\ request'.op = "predict"
        /\ DifferOnlyInTime(request.body, request'.body)) =>
          /\ \A k \in DOMAIN calls' : "time" \notin Range(calls'[k].df.columns)
          /\ calls' = calls
          /\ response'.status_code = response.status_code
          /\ response.status_code # 200 => response' = response
          /\ response.status_code = 200 =>
                /\ response'.hazard_ratio = response.hazard_ratio
                /\ response'.risk_score = response.risk_score
                /\ response'.median_survival_age = response.median_survival_age
                /\ response.survival_probabilities
                      = HorizonsSampled(Curve, request.body["time"].halves)
                /\ response'.survival_probabilities
                      = HorizonsSampled(Curve, request'.body["time"].halves)]_vars

\* C22 witness: a prediction for a record of index age 55.5 whose twin of
\* index age 50 is a request too and has other horizons sampled from the
\* same curve.
C22_Witness ==
    /\ PredictSucceeded
    /\ request.body["time"] = JNumber(111)
    /\ [request.body EXCEPT !["time"] = JNumber(100)] \in RawRecords
    /\ response.survival_probabilities = HorizonsSampled(Curve, 111)
    /\ HorizonsSampled(Curve, 100) # response.survival_probabilities
    /\ \A k \in DOMAIN calls : "time" \notin Range(calls[k].df.columns)

====
